---- MODULE Spec2Model ----
(***************************************************************************)
(* GoHTTP: the connection lifecycle of the static-file server.             *)
(*                                                                         *)
(* Strings are sequences of atoms.  The delimiters the code splits on      *)
(* (" ", ":", "/") are atoms of their own; every other atom is a word      *)
(* that contains none of them.                                             *)
(***************************************************************************)
EXTENDS Integers, Sequences, FiniteSets, TLC

(* ------------------------------ bounds --------------------------------- *)
\* number of connections the clients may dial
MaxConns == 2

\* total number of client operations: dialling a connection, sending a
\* chunk, closing a connection
MaxClientOps == 3

\* number of times one Response is serialized
MaxWrites == 2

\* connections are numbered in the order they are dialled
Conns == 1..MaxConns

(* ------------------------- string primitives --------------------------- *)
\* index of the first atom a in s, 0 when absent (strings.Index)
RECURSIVE IndexFrom(_, _, _)
IndexFrom(s, a, i) ==
  IF i > Len(s) THEN 0
  ELSE IF s[i] = a THEN i
  ELSE IndexFrom(s, a, i + 1)

IndexOf(s, a) == IndexFrom(s, a, 1)

\* strings.SplitN(s, sep, n) for n >= 1
RECURSIVE SplitN(_, _, _)
SplitN(s, sep, n) ==
  LET i == IndexOf(s, sep)
  IN  IF n = 1 \/ i = 0 THEN <<s>>
      ELSE <<SubSeq(s, 1, i - 1)>> \o SplitN(SubSeq(s, i + 1, Len(s)), sep, n - 1)

\* strings.Split(s, sep)
Split(s, sep) == SplitN(s, sep, Len(s) + 1)

\* strings.TrimLeft(s, " ")
RECURSIVE TrimLeft(_)
TrimLeft(s) ==
  IF s # <<>> /\ s[1] = " " THEN TrimLeft(Tail(s)) ELSE s

\* strings.HasPrefix / strings.HasSuffix
HasPrefix(s, p) == Len(p) <= Len(s) /\ SubSeq(s, 1, Len(p)) = p

HasSuffix(s, a) == s # <<>> /\ s[Len(s)] = a

\* atoms without any letter, digit or hyphen
NonAlnumAtoms == {" ", ":", "/", "?", ".", ".."}

\* IsAlphanumeric holds of some rune of the atom
IsAlphanumeric(a) == a \notin NonAlnumAtoms

\* strings.IndexFunc(key, IsAlphanumeric) != -1
HasAlnum(key) == \E i \in 1..Len(key) : IsAlphanumeric(key[i])

\* CanonicalHeaderKey on one word: title case per hyphen segment
CanonicalWord(a) ==
  CASE a = "host" -> "Host"
    [] a = "connection" -> "Connection"
    [] a = "x-test" -> "X-Test"
    [] OTHER -> a

CanonicalHeaderKey(key) == [i \in 1..Len(key) |-> CanonicalWord(key[i])]

(* ------------------------------ paths ---------------------------------- *)
\* the segments of a path: the words between the "/" atoms
Segments(p) == Split(p, "/")

\* path.Clean's walk over the segments; out is the stack built so far
RECURSIVE CleanSegs(_, _, _)
CleanSegs(segs, rooted, out) ==
  IF segs = <<>> THEN out
  ELSE LET s == Head(segs)
           rest == Tail(segs)
       IN  IF s = <<>> \/ s = <<".">> THEN CleanSegs(rest, rooted, out)
           ELSE IF s = <<"..">> THEN
             IF out # <<>> /\ out[Len(out)] # <<"..">>
               THEN CleanSegs(rest, rooted, SubSeq(out, 1, Len(out) - 1))
             ELSE IF rooted THEN CleanSegs(rest, rooted, out)
             ELSE CleanSegs(rest, rooted, Append(out, s))
           ELSE CleanSegs(rest, rooted, Append(out, s))

RECURSIVE JoinSegs(_)
JoinSegs(segs) ==
  IF segs = <<>> THEN <<>>
  ELSE IF Len(segs) = 1 THEN segs[1]
  ELSE segs[1] \o <<"/">> \o JoinSegs(Tail(segs))

\* filepath.Clean / path.Clean
Clean(p) ==
  IF p = <<>> THEN <<".">>
  ELSE LET rooted == p[1] = "/"
           out == CleanSegs(Segments(p), rooted, <<>>)
       IN  IF rooted THEN <<"/">> \o JoinSegs(out)
           ELSE IF out = <<>> THEN <<".">>
           ELSE JoinSegs(out)

\* path.Join(a, b) / filepath.Join(a, b)
Join(a, b) ==
  IF a = <<>> /\ b = <<>> THEN <<>>
  ELSE IF a = <<>> THEN Clean(b)
  ELSE IF b = <<>> THEN Clean(a)
  ELSE Clean(a \o <<"/">> \o b)

\* filepath.Ext: the extension of the last word
Ext(p) ==
  IF p = <<>> THEN ""
  ELSE CASE p[Len(p)] = "hello.html" -> ".html"
         [] p[Len(p)] = "index.html" -> ".html"
         [] OTHER -> ""

\* MIMETypeByExtension
MIMETypeByExtension(ext) ==
  IF ext = ".html" THEN <<"text/html">> ELSE <<"application/octet-stream">>

\* strconv.Itoa for a non-negative int
RECURSIVE Itoa(_)
Itoa(n) ==
  LET d == <<"0", "1", "2", "3", "4", "5", "6", "7", "8", "9">>
  IN  IF n < 10 THEN <<d[n + 1]>> ELSE Itoa(n \div 10) \o <<d[(n % 10) + 1]>>

(* ---------------------------- file system ------------------------------ *)
\* Server.DocRoot, the doc_root flag's default
DocRoot == <<"htdocs">>

\* doc_root strings that name the directory htdocs of the working directory
\* /srv: plain, with a leading "./", with a trailing "/", absolute
DocRoots ==
  { <<"htdocs">>,
    <<".", "/", "htdocs">>,
    <<"htdocs", "/">>,
    <<"/", "srv", "/", "htdocs">> }

\* what os.Stat finds at the doc_root: a directory, a regular file, nothing,
\* or an error other than "does not exist" (no permission to search /srv)
RootKinds == {"dir", "file", "none", "error"}

\* the document trees considered: with and without htdocs/index.html
FileSystems == {[rootIndex |-> b, root |-> k] : b \in BOOLEAN, k \in RootKinds}

\* the path as the kernel walks it: cleaned, and relative to the working
\* directory /srv
Resolve(p) ==
  LET q == Clean(p)
  IN  IF q = <<"/", "srv">> THEN <<".">>
      ELSE IF HasPrefix(q, <<"/", "srv", "/">>) THEN SubSeq(q, 4, Len(q))
      ELSE q

\* size in bytes of the regular file at a resolved path, -1 when it is none
FileSize(f, p) ==
  CASE f.root = "file" /\ p = <<"htdocs">> -> 3
    [] f.root = "dir" /\ p = <<"htdocs", "/", "hello.html">> -> 12
    [] f.root = "dir" /\ p = <<"htdocs", "/", "subdir", "/", "index.html">> -> 7
    [] f.root = "dir" /\ p = <<"htdocs", "/", "index.html">> /\ f.rootIndex -> 5
    [] p = <<"secret.txt">> -> 9
    [] OTHER -> -1

IsDirPath(f, p) ==
  \/ p = <<".">>
  \/ f.root = "dir" /\ p \in {<<"htdocs">>, <<"htdocs", "/", "subdir">>}

\* the error of os.Stat: "nil", "notexist", or "other"
StatErr(f, p) ==
  IF f.root = "error" /\ HasPrefix(Resolve(p), <<"htdocs">>) THEN "other"
  ELSE IF IsDirPath(f, Resolve(p)) \/ FileSize(f, Resolve(p)) >= 0 THEN "nil"
  ELSE "notexist"

\* os.Stat: "dir", "file", or "none" when Stat returns an error
Stat(f, p) ==
  IF StatErr(f, p) # "nil" THEN "none"
  ELSE IF IsDirPath(f, Resolve(p)) THEN "dir"
  ELSE "file"

(* ------------------------ requests and responses ----------------------- *)
EmptyHeader == [k \in {} |-> <<>>]

\* map assignment h[k] = v
SetHeader(h, k, v) == [x \in DOMAIN h \cup {k} |-> IF x = k THEN v ELSE h[x]]

\* a nil *Request
NilReq ==
  [nil |-> TRUE, Method |-> <<>>, URL |-> <<>>, Proto |-> <<>>,
   Host |-> <<>>, Close |-> FALSE, Header |-> EmptyHeader]

\* &Request{Header: make(map[string]string)}
NewReq == [NilReq EXCEPT !.nil = FALSE]

\* &Response{Header: make(map[string]string)}
NewRes == [StatusCode |-> 0, Proto |-> "", Header |-> EmptyHeader, FilePath |-> <<>>]

\* parseRequestLine: the fields, ok = FALSE when there are not three of them
parseRequestLine(line) ==
  LET fields == SplitN(line, " ", 3)
  IN  IF Len(fields) # 3
        THEN [ok |-> FALSE, Method |-> <<>>, URL |-> <<>>, Proto |-> <<>>]
        ELSE [ok |-> TRUE, Method |-> fields[1], URL |-> fields[2], Proto |-> fields[3]]

HandleBadRequest(res) ==
  [res EXCEPT !.Header = SetHeader(SetHeader(res.Header, "Date", <<"now">>),
                                   "Connection", <<"close">>),
              !.Proto = "HTTP/1.1",
              !.StatusCode = 400,
              !.FilePath = <<>>]

\* HandleNotFound that forgets the Connection header
HandleNotFoundNoClose(res, rq) ==
  [res EXCEPT !.Header = SetHeader(res.Header, "Date", <<"now">>),
              !.Proto = "HTTP/1.1",
              !.StatusCode = 404]

HandleNotFound(res, rq) ==
  LET h1 == SetHeader(res.Header, "Date", <<"now">>)
  IN  [res EXCEPT !.Header = IF rq.Close THEN SetHeader(h1, "Connection", <<"close">>) ELSE h1,
                  !.Proto = "HTTP/1.1",
                  !.StatusCode = 404]

\* HandleOK dereferences the nil FileInfo when os.Stat(path) failed
HandleOKPanics(f, path) == Stat(f, path) = "none"

HandleOK(f, res, rq, path) ==
  LET h1 == SetHeader(res.Header, "Date", <<"now">>)
      h2 == SetHeader(h1, "Last-Modified", <<"mtime">>)
      h3 == SetHeader(h2, "Content-Type", MIMETypeByExtension(Ext(path)))
      h4 == SetHeader(h3, "Content-Length",
                      Itoa(IF FileSize(f, Resolve(path)) >= 0 THEN FileSize(f, Resolve(path)) ELSE 0))
      h5 == IF rq.Close THEN SetHeader(h4, "Connection", <<"close">>) ELSE h4
  IN  [res EXCEPT !.Header = h5, !.Proto = "HTTP/1.1", !.StatusCode = 200, !.FilePath = path]

\* HandleGoodRequest as it was before the checks were written: the joined
\* path is served as it is
HandleGoodRequestUnchecked(root, f, rq) ==
  [panic |-> FALSE,
   res |-> [NewRes EXCEPT !.Proto = "HTTP/1.1", !.StatusCode = 200,
                          !.FilePath = Join(root, rq.URL)]]

\* HandleGoodRequest with s.DocRoot = root: [panic, res]
HandleGoodRequest(root, f, rq) ==
  LET res0 == [NewRes EXCEPT !.Proto = "HTTP/1.1", !.StatusCode = 200]
      url == Clean(rq.URL)
      fp == Join(root, url)
      notFound == [panic |-> FALSE, res |-> HandleNotFound([res0 EXCEPT !.FilePath = <<>>], rq)]
      serve(p) == IF ~HasPrefix(p, root) THEN notFound
                  ELSE IF HandleOKPanics(f, p) THEN [panic |-> TRUE, res |-> res0]
                  ELSE [panic |-> FALSE, res |-> HandleOK(f, res0, rq, p)]
  IN  IF Stat(f, fp) = "none" THEN notFound
      ELSE IF Stat(f, fp) = "dir" THEN
        IF HasSuffix(url, "/") THEN serve(Join(fp, <<"index.html">>)) ELSE notFound
      ELSE serve(fp)

(* --------------------------- serialization ----------------------------- *)
\* position of a header key in sort.Strings order
KeyRank(k) ==
  CASE k = "Connection" -> 1
    [] k = "Content-Length" -> 2
    [] k = "Content-Type" -> 3
    [] k = "Date" -> 4
    [] k = "Last-Modified" -> 5
    [] OTHER -> 6

\* sort.Strings over the keys of the header map
RECURSIVE SortedKeys(_)
SortedKeys(S) ==
  IF S = {} THEN <<>>
  ELSE LET m == CHOOSE k \in S : \A j \in S : KeyRank(k) <= KeyRank(j)
       IN  <<m>> \o SortedKeys(S \ {m})

\* the header lines WriteSortedHeaders emits, without the final empty line
HeaderLines(res) ==
  LET ks == SortedKeys(DOMAIN res.Header)
  IN  [i \in 1..Len(ks) |-> <<ks[i], res.Header[ks[i]]>>]

\* the two packages that define Response.Write
Packages == {"gohttp", "tritonhttp"}

\* the orders in which a range over a map with key set S can visit it
Orders(S) ==
  {p \in [1..Cardinality(S) -> S] : \A i, j \in DOMAIN p : i # j => p[i] # p[j]}

\* what one call of gohttp's WriteSortedHeaders puts on w, as lines; <<>>
\* is the empty line: the keys are sorted and the empty line ends the head
WriteSortedHeaders(res) == {HeaderLines(res) \o << <<>> >>}

\* what one call of tritonhttp's WriteSortedHeaders can put on w: it ranges
\* over the map and writes no empty line
WriteHeadersInMapOrder(res) ==
  {[i \in DOMAIN p |-> <<p[i], res.Header[p[i]]>>] : p \in Orders(DOMAIN res.Header)}

\* the header sets serialized: every subset of the keys the server sets
HeaderSets ==
  {[k \in S |-> IF k = "Connection" THEN <<"close">>
               ELSE IF k = "Content-Length" THEN Itoa(12)
               ELSE IF k = "Content-Type" THEN <<"text/html">>
               ELSE <<"now">>] :
     S \in SUBSET {"Connection", "Content-Length", "Content-Type", "Date"}}

\* the ways Response.Write can end: "ok", or the step whose write failed
WriteOutcomes(res) ==
  {"ok", "errStatus", "errHeaders"} \cup (IF res.FilePath # <<>> THEN {"errBody"} ELSE {})

\* what Response.Write put on the connection, for one outcome
Written(res, outcome, n) ==
  [iter |-> n,
   code |-> res.StatusCode,
   lines |-> IF outcome \in {"ok", "errBody"} THEN HeaderLines(res) ELSE <<>>,
   close |-> "Connection" \in DOMAIN res.Header,
   body |-> outcome = "ok" /\ res.FilePath # <<>>,
   file |-> res.FilePath,
   complete |-> outcome = "ok"]

(* ------------------------------ clients -------------------------------- *)
RL_FILE == <<"GET", " ", "/", "hello.html", " ", "HTTP/1.1">>
RL_ROOT == <<"GET", " ", "/", " ", "HTTP/1.1">>
RL_MISSING == <<"GET", " ", "/", "nope", " ", "HTTP/1.1">>
RL_POST == <<"POST", " ", "/", "hello.html", " ", "HTTP/1.1">>
RL_TWO == <<"GET", " ", "/", "hello.html">>
RL_EMPTYURL == <<"GET", " ", " ", "HTTP/1.1">>
RL_NOSLASH == <<"GET", " ", "hello.html", " ", "HTTP/1.1">>
RL_BADVER == <<"GET", " ", "/", "hello.html", " ", "HTTP/1.0">>
H_HOST == <<"Host", ":", " ", "localhost">>
H_CLOSE == <<"connection", ":", " ", "close">>
H_NOCOLON == <<"Host">>
H_BADKEY == <<"?", ":", " ", "x">>
BLANK == <<>>

\* what a client can send in one go: complete lines (each followed by CRLF)
\* and then the bytes of a line it has not terminated yet
Chunks ==
  { [lines |-> <<RL_FILE, H_HOST, BLANK>>, tail |-> <<>>],
    [lines |-> <<RL_FILE, H_HOST, H_CLOSE, BLANK>>, tail |-> <<>>],
    [lines |-> <<RL_MISSING, H_HOST, BLANK>>, tail |-> <<>>],
    [lines |-> <<RL_ROOT, H_HOST, BLANK>>, tail |-> <<>>],
    [lines |-> <<RL_POST, H_HOST, BLANK>>, tail |-> <<>>],
    [lines |-> <<RL_TWO, H_HOST, BLANK>>, tail |-> <<>>],
    [lines |-> <<RL_EMPTYURL, H_HOST, BLANK>>, tail |-> <<>>],
    [lines |-> <<RL_NOSLASH, H_HOST, BLANK>>, tail |-> <<>>],
    [lines |-> <<RL_BADVER, H_HOST, BLANK>>, tail |-> <<>>],
    [lines |-> <<RL_FILE, H_NOCOLON, BLANK>>, tail |-> <<>>],
    [lines |-> <<RL_FILE, H_BADKEY, BLANK>>, tail |-> <<>>],
    [lines |-> <<RL_FILE, BLANK>>, tail |-> <<>>],
    [lines |-> <<>>, tail |-> <<"GET", " ", "/", " ", "HTTP/1">>],
    [lines |-> <<RL_FILE, H_HOST>>, tail |-> <<>>],
    [lines |-> <<RL_FILE>>, tail |-> <<"Host", ":">>],
    [lines |-> <<BLANK>>, tail |-> <<>>] }

(* ------------------------------- state --------------------------------- *)
VARIABLES
  procAlive,   \* the server process has not died of a panic
  fs,          \* the document tree on disk
  docRoot,     \* Server.DocRoot
  srv,         \* ListenAndServe: "init", "listening", "failed" (returned an error)
  ser,         \* a Response being serialized and what was written for it
  cstate,      \* per connection: "idle", "pending", "accepted", "accepterr"
  inbuf,       \* complete lines received and not yet returned by ReadLine
  partial,     \* received bytes of a line whose CRLF has not arrived
  peerClosed,  \* the client has closed its end
  open,        \* conn has not been closed by the server
  expired,     \* the read deadline set by SetReadDeadline has passed
  pc,          \* the worker: "none", "arm", "startline", "headers", "handle", "done"
  req,         \* ReadRequest's req
  rr,          \* what ReadRequest returned: [bytesReceived, err]
  att,         \* the current parse attempt: what the stream really did
  iter,        \* number of the current iteration of the connection loop
  wire,        \* what Response.Write put on the connection, in order
  term,        \* how HandleConnection ended
  chunks       \* client operations (dials, chunks sent, closes) so far

vars == <<procAlive, fs, docRoot, srv, ser, cstate, inbuf, partial, peerClosed, open, expired,
          pc, req, rr, att, iter, wire, term, chunks>>

clientVars == <<cstate, inbuf, partial, peerClosed, chunks>>

\* no Response is being serialized
NoSer == [pkg |-> "none", Header |-> EmptyHeader, out |-> <<>>]

NoAttempt == [bytes |-> FALSE, fired |-> FALSE, eof |-> FALSE, lines |-> <<>>]

Init ==
  /\ procAlive = TRUE
  /\ fs \in FileSystems
  /\ docRoot = DocRoot
  /\ srv = "init"
  /\ ser = NoSer
  /\ cstate = [c \in Conns |-> "idle"]
  /\ inbuf = [c \in Conns |-> <<>>]
  /\ partial = [c \in Conns |-> <<>>]
  /\ peerClosed = [c \in Conns |-> FALSE]
  /\ open = [c \in Conns |-> FALSE]
  /\ expired = [c \in Conns |-> FALSE]
  /\ pc = [c \in Conns |-> "none"]
  /\ req = [c \in Conns |-> NilReq]
  /\ rr = [c \in Conns |-> [bytesReceived |-> FALSE, err |-> "nil"]]
  /\ att = [c \in Conns |-> NoAttempt]
  /\ iter = [c \in Conns |-> 0]
  /\ wire = [c \in Conns |-> <<>>]
  /\ term = [c \in Conns |-> "none"]
  /\ chunks = 0

(* --------------------------- client actions ---------------------------- *)
Connect(c) ==
  /\ srv = "listening"
  /\ cstate[c] = "idle"
  /\ \A d \in Conns : d < c => cstate[d] # "idle"
  /\ chunks < MaxClientOps
  /\ cstate' = [cstate EXCEPT ![c] = "pending"]
  /\ chunks' = chunks + 1
  /\ UNCHANGED <<procAlive, fs, docRoot, srv, ser, inbuf, partial, peerClosed, open, expired,
                 pc, req, rr, att, iter, wire, term>>

ClientSend(c) ==
  /\ cstate[c] = "accepted"
  /\ ~peerClosed[c]
  /\ pc[c] # "done"
  /\ chunks < MaxClientOps
  /\ \E k \in Chunks :
       /\ inbuf' = [inbuf EXCEPT ![c] =
            IF k.lines = <<>> THEN @
            ELSE @ \o <<partial[c] \o Head(k.lines)>> \o Tail(k.lines)]
       /\ partial' = [partial EXCEPT ![c] =
            IF k.lines = <<>> THEN @ \o k.tail ELSE k.tail]
  /\ chunks' = chunks + 1
  /\ UNCHANGED <<procAlive, fs, docRoot, srv, ser, cstate, peerClosed, open, expired,
                 pc, req, rr, att, iter, wire, term>>

ClientClose(c) ==
  /\ cstate[c] = "accepted"
  /\ ~peerClosed[c]
  /\ pc[c] # "done"
  /\ chunks < MaxClientOps
  /\ peerClosed' = [peerClosed EXCEPT ![c] = TRUE]
  /\ chunks' = chunks + 1
  /\ UNCHANGED <<procAlive, fs, docRoot, srv, ser, cstate, inbuf, partial, open, expired,
                 pc, req, rr, att, iter, wire, term>>

\* five seconds have passed since the deadline was set, with the worker
\* waiting in ReadLine for bytes that have not come
\* a worker that reads without a deadline
ReadDeadlineUnset(p, c) == FALSE

\* the deadline set at the loop top is in force while ReadRequest reads
ReadDeadlineSet(p, c) == p[c] \in {"startline", "headers"}

DeadlineExpires(c) ==
  /\ procAlive
  /\ ReadDeadlineSet(pc, c)
  /\ inbuf[c] = <<>>
  /\ ~expired[c]
  /\ expired' = [expired EXCEPT ![c] = TRUE]
  /\ UNCHANGED <<procAlive, fs, docRoot, srv, ser, cstate, inbuf, partial, peerClosed, open,
                 pc, req, rr, att, iter, wire, term, chunks>>

(* ----------------------------- accept loop ----------------------------- *)
\* an accept loop that runs HandleConnection itself: it is back at
\* ln.Accept() only when no worker is running
AcceptLoopSerial(p) == \A d \in Conns : p[d] \in {"none", "done"}

\* go s.HandleConnection(conn): the accept loop is back at ln.Accept() at
\* once, whatever the workers do
AcceptLoopReady(p) == TRUE

\* ValidateServerSetup: "ok" (nil), "err" (an error is returned), or "panic"
\* (fi.IsDir() on the nil FileInfo of a Stat that failed otherwise)
ValidateServerSetup(f, root) ==
  IF StatErr(f, root) = "notexist" THEN "err"
  ELSE IF StatErr(f, root) = "other" THEN "panic"
  ELSE IF Stat(f, root) # "dir" THEN "err"
  ELSE "ok"

\* ListenAndServe up to its accept loop; net.Listen may fail
ListenAndServe ==
  /\ procAlive
  /\ srv = "init"
  /\ LET v == ValidateServerSetup(fs, docRoot)
     IN  IF v = "panic" THEN procAlive' = FALSE /\ UNCHANGED srv
         ELSE IF v = "err" THEN srv' = "failed" /\ UNCHANGED procAlive
         ELSE /\ \E listenOk \in BOOLEAN : srv' = IF listenOk THEN "listening" ELSE "failed"
              /\ UNCHANGED procAlive
  /\ UNCHANGED <<fs, docRoot, ser, open, expired, pc, req, rr, att, iter, wire, term>>
  /\ UNCHANGED clientVars

\* ln.Accept() returns the connection; go s.HandleConnection(conn)
AcceptConn(c) ==
  /\ procAlive
  /\ srv = "listening"
  /\ AcceptLoopReady(pc)
  /\ cstate[c] = "pending"
  /\ cstate' = [cstate EXCEPT ![c] = "accepted"]
  /\ open' = [open EXCEPT ![c] = TRUE]
  /\ pc' = [pc EXCEPT ![c] = "arm"]
  /\ UNCHANGED <<procAlive, fs, docRoot, srv, ser, inbuf, partial, peerClosed, expired,
                 req, rr, att, iter, wire, term, chunks>>

\* ln.Accept() returns an error: it is printed and the loop continues
AcceptError(c) ==
  /\ procAlive
  /\ srv = "listening"
  /\ AcceptLoopReady(pc)
  /\ cstate[c] = "pending"
  /\ cstate' = [cstate EXCEPT ![c] = "accepterr"]
  /\ UNCHANGED <<procAlive, fs, docRoot, srv, ser, inbuf, partial, peerClosed, open, expired,
                 pc, req, rr, att, iter, wire, term, chunks>>

(* ------------------------------- worker -------------------------------- *)
\* conn.SetReadDeadline returns an error on a connection already closed
SetReadDeadlineFails(o, c) == ~o[c]

\* faulty variant: the io.EOF test never succeeds
IsEOFNever(e) == FALSE

\* errors.Is(err, io.EOF)
IsEOF(e) == e = "EOF"

\* err is a net.Error, err.Timeout() and req == nil
IsTimeoutNoRequest(e, rq) == e = "timeout" /\ rq.nil

\* faulty variant: every timeout is answered with a 400
Reply400OnTimeoutAlways(b) == TRUE

\* if bytesReceived: the timeout is answered with a 400
Reply400OnTimeout(b) == b

\* faulty variant: the close flag is ignored
CloseRequestedNever(rq) == FALSE

\* faulty variant: the connection is closed after every response
CloseRequestedAlways(rq) == TRUE

\* if req.Close: the connection is closed after the response
CloseRequested(rq) == rq.Close

\* conn.Close()
ConnClose(o, c) == [o EXCEPT ![c] = FALSE]

\* faulty variant: HandleConnection without its deferred close
DeferredCloseMissing(o, c) == o

\* defer conn.Close(), run when HandleConnection returns or panics
DeferredClose(o, c) == [o EXCEPT ![c] = FALSE]

\* an unrecovered panic in the worker's goroutine: the deferred calls run,
\* then the runtime ends the process
Panic(c) ==
  /\ procAlive' = FALSE
  /\ open' = DeferredClose(open, c)
  /\ pc' = [pc EXCEPT ![c] = "done"]
  /\ term' = [term EXCEPT ![c] = "panic"]

\* ReadLine: the next line without its CRLF and a nil error, or the bytes
\* read so far and the error that ended the read; it blocks otherwise
ReadLine(c) ==
  IF inbuf[c] # <<>>
    THEN {[line |-> Head(inbuf[c]), err |-> "nil", buf |-> Tail(inbuf[c]), part |-> partial[c]]}
    ELSE (IF peerClosed[c]
            THEN {[line |-> partial[c], err |-> "EOF", buf |-> <<>>, part |-> <<>>]}
            ELSE {})
         \cup
         (IF expired[c]
            THEN {[line |-> partial[c], err |-> "timeout", buf |-> <<>>, part |-> <<>>]}
            ELSE {})

\* the attempt after ReadLine returned r
Observed(a, r) ==
  [bytes |-> a.bytes \/ r.err = "nil" \/ r.line # <<>>,
   fired |-> a.fired \/ r.err = "timeout",
   eof |-> a.eof \/ r.err = "EOF",
   lines |-> IF r.err = "nil" THEN Append(a.lines, r.line) ELSE a.lines]

\* a loop top that leaves the deadline of the previous iteration in force
ArmDeadlineKept(e, c) == e

\* conn.SetReadDeadline(time.Now().Add(5 s)): the deadline lies ahead again
ArmDeadline(e, c) == [e EXCEPT ![c] = FALSE]

\* top of the connection loop: conn.SetReadDeadline, which fails on a
\* closed connection
Arm(c) ==
  /\ procAlive
  /\ pc[c] = "arm"
  /\ IF SetReadDeadlineFails(open, c)
       THEN /\ open' = DeferredClose(ConnClose(open, c), c)
            /\ pc' = [pc EXCEPT ![c] = "done"]
            /\ term' = [term EXCEPT ![c] = "armfail"]
            /\ UNCHANGED <<expired, req, att, iter>>
       ELSE /\ expired' = ArmDeadline(expired, c)
            /\ iter' = [iter EXCEPT ![c] = @ + 1]
            /\ att' = [att EXCEPT ![c] = NoAttempt]
            /\ req' = [req EXCEPT ![c] = NewReq]
            /\ pc' = [pc EXCEPT ![c] = "startline"]
            /\ UNCHANGED <<open, term>>
  /\ UNCHANGED <<procAlive, fs, docRoot, srv, ser, rr, wire>>
  /\ UNCHANGED clientVars

\* ReadRequest returns (rq, b, e) to HandleConnection
ReturnRequest(c, rq, b, e) ==
  /\ req' = [req EXCEPT ![c] = rq]
  /\ rr' = [rr EXCEPT ![c] = [bytesReceived |-> b, err |-> e]]
  /\ pc' = [pc EXCEPT ![c] = "handle"]
  /\ UNCHANGED <<procAlive, open, term>>

\* ReadRequest from its start to the end of the request line's checks
ReadStartLine(c) ==
  /\ procAlive
  /\ pc[c] = "startline"
  /\ \E r \in ReadLine(c) :
       /\ inbuf' = [inbuf EXCEPT ![c] = r.buf]
       /\ partial' = [partial EXCEPT ![c] = r.part]
       /\ att' = [att EXCEPT ![c] = Observed(@, r)]
       /\ LET f == parseRequestLine(r.line)
          IN  IF r.err # "nil" THEN ReturnRequest(c, NilReq, FALSE, r.err)
              ELSE IF ~f.ok THEN ReturnRequest(c, NilReq, TRUE, "parse")
              ELSE IF f.Method # <<"GET">> THEN ReturnRequest(c, NilReq, TRUE, "parse")
              ELSE IF f.URL = <<>> THEN Panic(c) /\ UNCHANGED <<req, rr>>
              ELSE IF f.URL[1] # "/" THEN ReturnRequest(c, NilReq, TRUE, "parse")
              ELSE IF f.Proto # <<"HTTP/1.1">> THEN ReturnRequest(c, NilReq, TRUE, "parse")
              ELSE /\ req' = [req EXCEPT ![c] =
                         [NewReq EXCEPT !.Method = f.Method, !.URL = f.URL, !.Proto = f.Proto]]
                   /\ pc' = [pc EXCEPT ![c] = "headers"]
                   /\ UNCHANGED <<procAlive, open, term, rr>>
  /\ UNCHANGED <<fs, docRoot, srv, ser, cstate, peerClosed, expired, iter, wire, chunks>>

\* one turn of ReadRequest's header loop
ReadHeaderLine(c) ==
  /\ procAlive
  /\ pc[c] = "headers"
  /\ \E r \in ReadLine(c) :
       /\ inbuf' = [inbuf EXCEPT ![c] = r.buf]
       /\ partial' = [partial EXCEPT ![c] = r.part]
       /\ att' = [att EXCEPT ![c] = Observed(@, r)]
       /\ LET spilted == Split(r.line, ":")
              key == spilted[1]
              value == TrimLeft(spilted[2])
              ckey == CanonicalHeaderKey(key)
          IN  IF r.line = <<>> THEN ReturnRequest(c, req[c], TRUE, "nil")
              ELSE IF r.err # "nil" THEN ReturnRequest(c, req[c], TRUE, r.err)
              ELSE IF ~HasAlnum(key) THEN ReturnRequest(c, NilReq, TRUE, "parse")
              ELSE IF Len(spilted) < 2 THEN Panic(c) /\ UNCHANGED <<req, rr>>
              ELSE /\ req' = [req EXCEPT ![c] =
                         IF ckey = <<"Host">> THEN [@ EXCEPT !.Host = value]
                         ELSE IF ckey = <<"Connection">> THEN [@ EXCEPT !.Close = (value = <<"close">>)]
                         ELSE [@ EXCEPT !.Header = SetHeader(@, ckey, value)]]
                   /\ UNCHANGED <<procAlive, open, term, rr, pc>>
  /\ UNCHANGED <<fs, docRoot, srv, ser, cstate, peerClosed, expired, iter, wire, chunks>>

\* HandleConnection returns after closing conn
Return(c, how) ==
  /\ open' = DeferredClose(ConnClose(open, c), c)
  /\ pc' = [pc EXCEPT ![c] = "done"]
  /\ term' = [term EXCEPT ![c] = how]

\* 1. errors.Is(err, io.EOF)
HandleEOF(c) ==
  /\ procAlive
  /\ pc[c] = "handle"
  /\ IsEOF(rr[c].err)
  /\ Return(c, "eof")
  /\ UNCHANGED <<procAlive, fs, docRoot, srv, ser, expired, req, rr, att, iter, wire>>
  /\ UNCHANGED clientVars

\* 2. a timeout and req == nil: a 400 only if bytesReceived
HandleTimeout(c) ==
  /\ procAlive
  /\ pc[c] = "handle"
  /\ ~IsEOF(rr[c].err)
  /\ IsTimeoutNoRequest(rr[c].err, req[c])
  /\ IF Reply400OnTimeout(rr[c].bytesReceived)
       THEN \E o \in WriteOutcomes(HandleBadRequest(NewRes)) :
              wire' = [wire EXCEPT ![c] = Append(@, Written(HandleBadRequest(NewRes), o, iter[c]))]
       ELSE UNCHANGED wire
  /\ Return(c, "timeout")
  /\ UNCHANGED <<procAlive, fs, docRoot, srv, ser, expired, req, rr, att, iter>>
  /\ UNCHANGED clientVars

\* 3. any other error: 400, close, return
HandleBad(c) ==
  /\ procAlive
  /\ pc[c] = "handle"
  /\ ~IsEOF(rr[c].err)
  /\ ~IsTimeoutNoRequest(rr[c].err, req[c])
  /\ rr[c].err # "nil"
  /\ \E o \in WriteOutcomes(HandleBadRequest(NewRes)) :
       wire' = [wire EXCEPT ![c] = Append(@, Written(HandleBadRequest(NewRes), o, iter[c]))]
  /\ Return(c, "bad")
  /\ UNCHANGED <<procAlive, fs, docRoot, srv, ser, expired, req, rr, att, iter>>
  /\ UNCHANGED clientVars

\* 4. the happy path: HandleGoodRequest, Write, close if req.Close, loop
HandleGood(c) ==
  /\ procAlive
  /\ pc[c] = "handle"
  /\ rr[c].err = "nil"
  /\ LET g == HandleGoodRequest(docRoot, fs, req[c])
     IN  IF g.panic
           THEN Panic(c) /\ UNCHANGED wire
           ELSE /\ \E o \in WriteOutcomes(g.res) :
                     wire' = [wire EXCEPT ![c] = Append(@, Written(g.res, o, iter[c]))]
                /\ open' = IF CloseRequested(req[c]) THEN ConnClose(open, c) ELSE open
                /\ pc' = [pc EXCEPT ![c] = "arm"]
                /\ UNCHANGED <<procAlive, term>>
  /\ UNCHANGED <<fs, docRoot, srv, ser, expired, req, rr, att, iter>>
  /\ UNCHANGED clientVars

(* --------------------------- specification ----------------------------- *)
Next ==
  \/ ListenAndServe
  \/ \E c \in Conns :
    \/ Connect(c)
    \/ ClientSend(c)
    \/ ClientClose(c)
    \/ DeadlineExpires(c)
    \/ AcceptConn(c)
    \/ AcceptError(c)
    \/ Arm(c)
    \/ ReadStartLine(c)
    \/ ReadHeaderLine(c)
    \/ HandleEOF(c)
    \/ HandleTimeout(c)
    \/ HandleBad(c)
    \/ HandleGood(c)

Spec == Init /\ [][Next]_vars

\* termination is followed on the first connection dialled: by C25 what a
\* worker does depends on its own connection and on the process only
LiveConns == {1}

\* the happy path is waiting to run in c's worker; HandleGood(c) is
\* enabled exactly in these states and every step of it leaves them
HappyPathDue(c) == procAlive /\ pc[c] = "handle" /\ rr[c].err = "nil"

\* c's worker takes a step other than the happy path
WorkerStep(c) ==
  \/ Arm(c)
  \/ ReadStartLine(c)
  \/ ReadHeaderLine(c)
  \/ HandleEOF(c)
  \/ HandleTimeout(c)
  \/ HandleBad(c)

\* the scheduler runs every worker that can run, and a deadline that is in
\* force passes after 5 seconds. For HandleGood(c) weak fairness is
\* written out as []<>~ENABLED, which is what WF_vars(HandleGood(c)) says
\* here, by the remark at HappyPathDue
Fairness ==
  \A c \in LiveConns :
    /\ WF_vars(WorkerStep(c))
    /\ []<>~HappyPathDue(c)
    /\ WF_vars(DeadlineExpires(c))

\* the server before ListenAndServe, with clients that have one operation
\* fewer to spend than in Init
InitLive ==
  /\ procAlive = TRUE
  /\ fs \in FileSystems
  /\ docRoot = DocRoot
  /\ srv = "init"
  /\ ser = NoSer
  /\ cstate = [c \in Conns |-> "idle"]
  /\ inbuf = [c \in Conns |-> <<>>]
  /\ partial = [c \in Conns |-> <<>>]
  /\ peerClosed = [c \in Conns |-> FALSE]
  /\ open = [c \in Conns |-> FALSE]
  /\ expired = [c \in Conns |-> FALSE]
  /\ pc = [c \in Conns |-> "none"]
  /\ req = [c \in Conns |-> NilReq]
  /\ rr = [c \in Conns |-> [bytesReceived |-> FALSE, err |-> "nil"]]
  /\ att = [c \in Conns |-> NoAttempt]
  /\ iter = [c \in Conns |-> 0]
  /\ wire = [c \in Conns |-> <<>>]
  /\ term = [c \in Conns |-> "none"]
  /\ chunks = 1

\* the server with the clients of one connection
NextLive ==
  \/ ListenAndServe
  \/ \E c \in LiveConns :
    \/ Connect(c)
    \/ ClientSend(c)
    \/ ClientClose(c)
    \/ DeadlineExpires(c)
    \/ AcceptConn(c)
    \/ AcceptError(c)
    \/ Arm(c)
    \/ ReadStartLine(c)
    \/ ReadHeaderLine(c)
    \/ HandleEOF(c)
    \/ HandleTimeout(c)
    \/ HandleBad(c)
    \/ HandleGood(c)

SpecLive == InitLive /\ [][NextLive]_vars /\ Fairness

(* ------------------ the handlers, from every ReadRequest result -------- *)
\* request targets: a file, the root, a directory with and without the
\* trailing slash, a missing file, dot segments inside and out of the root
Targets ==
  { <<"/", "hello.html">>,
    <<"/">>,
    <<"/", "subdir", "/">>,
    <<"/", "subdir">>,
    <<"/", "subdir", "/", "index.html">>,
    <<"/", "nope">>,
    <<"/", ".", "/", "hello.html">>,
    <<"/", "subdir", "/", "..", "/", "hello.html">>,
    <<"/", "..", "/", "secret.txt">> }

\* the requests ReadRequest builds from a valid request line and headers
ParsedRequests ==
  {[NewReq EXCEPT !.Method = <<"GET">>, !.URL = u, !.Proto = <<"HTTP/1.1">>,
                  !.Host = <<"localhost">>, !.Close = k] :
     u \in Targets, k \in BOOLEAN}

\* what ReadRequest can return: its return statements, one by one
ReadResults ==
  {[req |-> NilReq, bytesReceived |-> FALSE, err |-> e] : e \in {"EOF", "timeout"}}
  \cup {[req |-> NilReq, bytesReceived |-> TRUE, err |-> "parse"]}
  \cup {[req |-> rq, bytesReceived |-> TRUE, err |-> e] :
          rq \in ParsedRequests, e \in {"nil", "EOF", "timeout"}}

\* connection 1 is accepted and ReadRequest has just returned to its worker;
\* the server runs, so its doc_root passed ValidateServerSetup
InitHandle ==
  /\ procAlive = TRUE
  /\ fs \in FileSystems
  /\ docRoot \in DocRoots
  /\ ValidateServerSetup(fs, docRoot) = "ok"
  /\ srv = "listening"
  /\ ser = NoSer
  /\ cstate = [c \in Conns |-> IF c = 1 THEN "accepted" ELSE "idle"]
  /\ inbuf = [c \in Conns |-> <<>>]
  /\ partial = [c \in Conns |-> <<>>]
  /\ peerClosed = [c \in Conns |-> FALSE]
  /\ open = [c \in Conns |-> c = 1]
  /\ expired = [c \in Conns |-> FALSE]
  /\ pc = [c \in Conns |-> IF c = 1 THEN "handle" ELSE "none"]
  /\ \E r \in ReadResults :
       /\ req = [c \in Conns |-> IF c = 1 THEN r.req ELSE NilReq]
       /\ rr = [c \in Conns |-> IF c = 1 THEN [bytesReceived |-> r.bytesReceived, err |-> r.err]
                                          ELSE [bytesReceived |-> FALSE, err |-> "nil"]]
  /\ att = [c \in Conns |-> NoAttempt]
  /\ iter = [c \in Conns |-> IF c = 1 THEN 1 ELSE 0]
  /\ wire = [c \in Conns |-> <<>>]
  /\ term = [c \in Conns |-> "none"]
  /\ chunks = 0

NextHandle ==
  \E c \in Conns :
    \/ HandleEOF(c)
    \/ HandleTimeout(c)
    \/ HandleBad(c)
    \/ HandleGood(c)
    \/ Arm(c)

SpecHandle == InitHandle /\ [][NextHandle]_vars

(* ------------------------ serializing a Response ----------------------- *)
\* a Response with some header set, in one of the two packages
InitSerialize ==
  /\ procAlive = TRUE
  /\ fs \in {f \in FileSystems : f.root = "dir" /\ f.rootIndex}
  /\ docRoot = DocRoot
  /\ srv = "listening"
  /\ \E pkg \in Packages, h \in HeaderSets : ser = [pkg |-> pkg, Header |-> h, out |-> <<>>]
  /\ cstate = [c \in Conns |-> "idle"]
  /\ inbuf = [c \in Conns |-> <<>>]
  /\ partial = [c \in Conns |-> <<>>]
  /\ peerClosed = [c \in Conns |-> FALSE]
  /\ open = [c \in Conns |-> FALSE]
  /\ expired = [c \in Conns |-> FALSE]
  /\ pc = [c \in Conns |-> "none"]
  /\ req = [c \in Conns |-> NilReq]
  /\ rr = [c \in Conns |-> [bytesReceived |-> FALSE, err |-> "nil"]]
  /\ att = [c \in Conns |-> NoAttempt]
  /\ iter = [c \in Conns |-> 0]
  /\ wire = [c \in Conns |-> <<>>]
  /\ term = [c \in Conns |-> "none"]
  /\ chunks = 0

\* one more call of WriteSortedHeaders on the same Response
Serialize ==
  /\ ser.pkg # "none"
  /\ Len(ser.out) < MaxWrites
  /\ \E o \in (IF ser.pkg = "gohttp" THEN WriteSortedHeaders(ser)
                                      ELSE WriteHeadersInMapOrder(ser)) :
       ser' = [ser EXCEPT !.out = Append(@, o)]
  /\ UNCHANGED <<procAlive, fs, docRoot, srv, open, expired, pc, req, rr, att, iter, wire, term>>
  /\ UNCHANGED clientVars

NextSerialize == Serialize

SpecSerialize == InitSerialize /\ [][NextSerialize]_vars

TypeOK ==
  /\ procAlive \in BOOLEAN
  /\ \A c \in Conns :
       /\ pc[c] \in {"none", "arm", "startline", "headers", "handle", "done"}
       /\ term[c] \in {"none", "eof", "timeout", "bad", "armfail", "panic"}
       /\ open[c] \in BOOLEAN

(* ------------------------------ properties ----------------------------- *)
\* the writes of Response.Write in iteration n of connection c's loop
WritesIn(c, n) == {i \in 1..Len(wire[c]) : wire[c][i].iter = n}

Responses(c, n) == Cardinality(WritesIn(c, n))

Responses400(c, n) == Cardinality({i \in WritesIn(c, n) : wire[c][i].code = 400})

Parsing(c) == pc[c] \in {"startline", "headers", "handle"}

\* C1: when the deadline fires in an attempt that has received some bytes of
\* an incomplete request, the worker writes exactly one 400 response and
\* closes the connection.
C1_PartialTimeoutAnswered400 ==
  \A c \in Conns :
    (pc[c] = "done" /\ term[c] # "panic" /\ att[c].fired /\ att[c].bytes)
      => /\ Responses(c, iter[c]) = 1
         /\ Responses400(c, iter[c]) = 1
         /\ ~open[c]

\* C2: when the deadline fires in an attempt that has received no byte, the
\* worker writes nothing in that attempt and closes the connection.
C2_IdleTimeoutSilentClose ==
  \A c \in Conns :
    (att[c].fired /\ ~att[c].bytes)
      => /\ Responses(c, iter[c]) = 0
         /\ pc[c] \in {"handle", "done"}
         /\ pc[c] = "done" => (~open[c] /\ term[c] = "timeout")

\* an idle connection between pipelined requests has timed out
C2_Witness ==
  \E c \in Conns :
    /\ pc[c] = "done" /\ term[c] = "timeout"
    /\ att[c].fired /\ ~att[c].bytes
    /\ iter[c] = 2 /\ Len(wire[c]) = 1

\* the request line is not a valid one: not exactly three tokens, a method
\* other than GET, a target that is empty or does not begin with "/", a
\* version other than HTTP/1.1
InvalidRequestLine(line) ==
  LET t == Split(line, " ")
  IN  \/ Len(t) # 3
      \/ t[1] # <<"GET">>
      \/ t[2] = <<>>
      \/ t[2][1] # "/"
      \/ t[3] # <<"HTTP/1.1">>

\* the header line has no colon
MalformedHeader(line) == line # <<>> /\ IndexOf(line, ":") = 0

\* the complete lines read in the attempt make an invalid request
InvalidReceived(c) ==
  /\ att[c].lines # <<>>
  /\ \/ InvalidRequestLine(att[c].lines[1])
     \/ \E i \in 2..Len(att[c].lines) : MalformedHeader(att[c].lines[i])

\* C3: every request received in full that is invalid is answered with
\* exactly one 400, after which the connection is closed and the worker
\* parses nothing more.
C3_InvalidRequestAnswered400 ==
  \A c \in Conns :
    (InvalidReceived(c) /\ pc[c] # "handle")
      => /\ pc[c] = "done"
         /\ term[c] = "bad"
         /\ Responses(c, iter[c]) = 1
         /\ Responses400(c, iter[c]) = 1
         /\ ~open[c]

\* the worker has handled a valid request whose close flag is set
HandledClose(c) ==
  /\ pc[c] \in {"arm", "done"}
  /\ term[c] # "panic"
  /\ rr[c].err = "nil"
  /\ ~req[c].nil
  /\ req[c].Close

\* C4: after a valid request with the close flag has been handled, exactly
\* one response was written for it, the connection is closed, and nothing
\* the client pipelined behind it is ever read or answered.
C4_CloseFlagEndsConnection ==
  /\ [](\A c \in Conns :
          HandledClose(c) => (Responses(c, iter[c]) = 1 /\ ~open[c]))
  /\ [][\A c \in Conns :
          HandledClose(c) =>
            /\ HandledClose(c)'
            /\ wire'[c] = wire[c]
            /\ iter'[c] = iter[c]
            /\ Len(inbuf'[c]) >= Len(inbuf[c])]_vars

\* a request was buffered behind the close-flagged one and the worker has
\* returned without reading it
C4_Witness ==
  \E c \in Conns :
    /\ HandledClose(c)
    /\ pc[c] = "done" /\ term[c] = "armfail"
    /\ inbuf[c] # <<>>
    /\ Len(wire[c]) = 1

\* C5: one response per request, in the order of the requests, and the
\* response to request N is completely written before the parse of request
\* N+1 starts.
C5_ResponseCompleteBeforeNextParse ==
  \A c \in Conns :
    pc[c] \in {"startline", "headers"}
      => /\ Len(wire[c]) = iter[c] - 1
         /\ \A i \in 1..Len(wire[c]) : wire[c][i].iter = i /\ wire[c][i].complete

\* the connection's last write answered the current iteration's request with
\* a 200 or a 404
LastAnswered(c) ==
  /\ wire[c] # <<>>
  /\ wire[c][Len(wire[c])].iter = iter[c]
  /\ wire[c][Len(wire[c])].code \in {200, 404}

\* C6: after a valid request without the close flag is answered, with a 200
\* or a 404, the connection is open and the worker is back at the top of the
\* loop; a 404 alone never closes the connection.
C6_KeepAliveAfterAnswer ==
  \A c \in Conns :
    (LastAnswered(c) /\ ~req[c].Close)
      => /\ open[c]
         /\ pc[c] = "arm"

\* a 404 was written and the worker awaits the next request
C6_Witness ==
  \E c \in Conns :
    /\ LastAnswered(c) /\ ~req[c].Close
    /\ wire[c][Len(wire[c])].code = 404
    /\ open[c] /\ pc[c] = "arm"

\* C7: when the peer closes before any byte of a new request is read,
\* ReadRequest reports io.EOF and the worker closes the connection without
\* writing anything.
C7_CleanEOFSilentClose ==
  \A c \in Conns :
    (att[c].eof /\ ~att[c].bytes)
      => /\ rr[c].err = "EOF"
         /\ req[c].nil
         /\ Responses(c, iter[c]) = 0
         /\ pc[c] \in {"handle", "done"}
         /\ pc[c] = "done" => (~open[c] /\ term[c] = "eof")

C7_Witness ==
  \E c \in Conns :
    /\ att[c].eof /\ ~att[c].bytes
    /\ pc[c] = "done" /\ term[c] = "eof"
    /\ wire[c] = <<>>

\* C8: when writing a response fails, the worker closes the connection and
\* terminates without parsing another request.
C8_WriteFailureCloses ==
  \A c \in Conns :
    (\E i \in 1..Len(wire[c]) : ~wire[c][i].complete)
      => /\ ~open[c]
         /\ ~Parsing(c)

\* C9: no input on any connection and no accept error ends the server
\* process.
C9_ServerNeverDies ==
  /\ procAlive
  /\ \A c \in Conns : term[c] # "panic"

\* C10: whenever HandleConnection has returned, the connection is closed.
C10_ClosedOnEveryExit ==
  \A c \in Conns : pc[c] = "done" => ~open[c]

\* the worker has returned after answering a bad request
C10_Witness ==
  \E c \in Conns :
    /\ pc[c] = "done" /\ term[c] = "bad"
    /\ ~open[c]
    /\ wire[c] # <<>>

\* the complete lines read in the attempt are a head that ends with the
\* blank line, is well-formed, and has no Host header
HeadWithoutHost(c) ==
  LET l == att[c].lines
  IN  /\ Len(l) >= 2
      /\ l[Len(l)] = <<>>
      /\ ~InvalidReceived(c)
      /\ \A i \in 2..(Len(l) - 1) :
            CanonicalHeaderKey(Split(l[i], ":")[1]) # <<"Host">>

\* C11: a head received in full that is well-formed but has no Host header
\* is answered 400 and the connection is closed; no 200 or 404 is written
\* for it.
C11_MissingHostIs400 ==
  \A c \in Conns :
    (HeadWithoutHost(c) /\ pc[c] \in {"arm", "done"} /\ term[c] # "panic")
      => /\ term[c] = "bad"
         /\ ~open[c]
         /\ \A i \in WritesIn(c, iter[c]) : wire[c][i].code = 400

\* connection c's worker has answered the valid request req[c]
Answered(c) ==
  /\ pc[c] \in {"arm", "done"}
  /\ term[c] \in {"none", "armfail"}
  /\ rr[c].err = "nil"
  /\ ~req[c].nil
  /\ Responses(c, iter[c]) = 1

\* C12: a target naming a directory with a trailing slash is answered 200
\* with the directory's index.html; the same target without the trailing
\* slash is answered 404.
C12_TrailingSlashServesIndex ==
  \A c \in Conns :
    Answered(c) =>
      \A i \in WritesIn(c, iter[c]) :
        /\ req[c].URL = <<"/", "subdir", "/">>
             => /\ wire[c][i].code = 200
                /\ Resolve(wire[c][i].file) = <<"htdocs", "/", "subdir", "/", "index.html">>
        /\ req[c].URL = <<"/", "subdir">> => wire[c][i].code = 404

\* the path names something below the directory the doc_root names
UnderDocRoot(p) == HasPrefix(Resolve(p), Resolve(docRoot) \o <<"/">>)

\* the target, read segment by segment from the doc root, leaves it
EscapesDocRoot(u) == ~UnderDocRoot(docRoot \o u) /\ Resolve(docRoot \o u) # Resolve(docRoot)

C14_DeadlinePerIteration ==
  [][\A c \in Conns :
       /\ (pc[c] = "arm" /\ pc'[c] = "startline") => ~expired'[c]
       /\ (pc[c] \in {"startline", "headers"} /\ att'[c].fired /\ ~att[c].fired)
            => (expired[c] /\ iter[c] >= 1)]_vars

\* a worker back at the loop top after an iteration whose deadline passed,
\* its connection still open: the next step sets the deadline anew
C14_Witness ==
  \E c \in Conns : pc[c] = "arm" /\ iter[c] >= 1 /\ expired[c] /\ open[c]

\* C15: a 400 response always has the header Connection: close; a 200 or
\* 404 response has it exactly when the request's close flag is set.
C15_ConnectionCloseHeader ==
  \A c \in Conns :
    pc[c] \in {"arm", "done"} =>
      \A i \in WritesIn(c, iter[c]) :
        /\ wire[c][i].code \in {200, 400, 404}
        /\ wire[c][i].close <=> (wire[c][i].code = 400 \/ (~req[c].nil /\ req[c].Close))
        /\ wire[c][i].complete =>
             (wire[c][i].close <=>
                \E j \in 1..Len(wire[c][i].lines) :
                  wire[c][i].lines[j] = <<"Connection", <<"close">>>>)

\* a 404 with Connection: close and its request's close flag set
C15_Witness ==
  \E c \in Conns :
    /\ Answered(c)
    /\ req[c].Close
    /\ \E i \in WritesIn(c, iter[c]) :
         wire[c][i].code = 404 /\ wire[c][i].close /\ wire[c][i].complete

\* C16: whatever string names the doc root directory, a valid request for
\* an existing regular file below it is answered 200 with that file and
\* its size as Content-Length.
C16_ExistingFileServed ==
  \A c \in Conns :
    (Answered(c) /\ req[c].URL = <<"/", "hello.html">>) =>
      \A i \in WritesIn(c, iter[c]) :
        /\ wire[c][i].code = 200
        /\ Resolve(wire[c][i].file) = <<"htdocs", "/", "hello.html">>
        /\ wire[c][i].complete =>
             \E j \in 1..Len(wire[c][i].lines) :
               wire[c][i].lines[j] = <<"Content-Length", Itoa(12)>>

\* C17: when the doc root does not exist, is not a directory or cannot be
\* inspected, ListenAndServe returns an error before it listens, and no
\* connection is accepted or served.
C17_FailFastOnBadDocRoot ==
  (fs.root # "dir" /\ (srv # "init" \/ ~procAlive))
    => /\ srv = "failed"
       /\ procAlive
       /\ \A c \in Conns : cstate[c] = "idle" /\ pc[c] = "none"

\* the lines every call of WriteSortedHeaders is to write for header set h
SortedWithBlank(h) == HeaderLines([Header |-> h]) \o << <<>> >>

\* C18: WriteSortedHeaders writes every header once as "Key: Value" in
\* ascending order of the keys, followed by one empty line, for every
\* header set, the empty one too.
C18_SortedHeadersThenBlank ==
  \A i \in 1..Len(ser.out) : ser.out[i] = SortedWithBlank(ser.Header)

\* C19: serializing the same Response twice gives the same output.
C19_SerializationDeterministic ==
  \A i, j \in 1..Len(ser.out) : ser.out[i] = ser.out[j]

\* C20: when ReadRequest returns, bytesReceived tells whether at least one
\* byte was read in the attempt, also when the read of the request line
\* ended in a timeout or another error.
C20_BytesReceivedExact ==
  \A c \in Conns :
    (pc[c] = "handle" /\ iter[c] >= 1 /\ att[c] # NoAttempt)
      => (rr[c].bytesReceived <=> att[c].bytes)

\* C21: ReadRequest returns no partially filled Request: with a non-nil
\* error the request is nil, and with a nil error the request has method
\* GET, a target that begins with "/" and version HTTP/1.1.
C21_NoPartialRequest ==
  \A c \in Conns :
    pc[c] = "handle" =>
      /\ rr[c].err # "nil" => req[c].nil
      /\ rr[c].err = "nil" =>
           /\ ~req[c].nil
           /\ req[c].Method = <<"GET">>
           /\ req[c].URL # <<>> /\ req[c].URL[1] = "/"
           /\ req[c].Proto = <<"HTTP/1.1">>

\* the attempt read a valid request line, perhaps some header lines, and
\* then the stream timed out or ended before the empty line was read
HeadCutShort(c) ==
  LET l == att[c].lines
  IN  /\ l # <<>>
      /\ ~InvalidReceived(c)
      /\ l[Len(l)] # <<>>
      /\ att[c].fired \/ att[c].eof

\* C22: ReadRequest succeeds only after it has read the empty line that
\* ends the head: a head cut short by a timeout or the end of the stream
\* is a failure and is never answered 200 or 404.
C22_SuccessNeedsBlankLine ==
  \A c \in Conns :
    /\ (pc[c] = "handle" /\ HeadCutShort(c)) => rr[c].err # "nil"
    /\ (pc[c] \in {"arm", "done"} /\ HeadCutShort(c))
         => \A i \in WritesIn(c, iter[c]) : wire[c][i].code \notin {200, 404}

\* the header line has no colon, or its key has an atom that is not made of
\* letters, digits and hyphens
BadHeaderLine(line) ==
  /\ line # <<>>
  /\ \/ IndexOf(line, ":") = 0
     \/ \E j \in 1..Len(Split(line, ":")[1]) : ~IsAlphanumeric(Split(line, ":")[1][j])
     \/ Split(line, ":")[1] = <<>>

\* C23: a header line without a colon, or with a key that has a character
\* other than letters, digits and hyphens, makes ReadRequest return a
\* parse failure, which the worker answers with one 400.
C23_BadHeaderIs400 ==
  \A c \in Conns :
    (/\ Len(att[c].lines) >= 2
     /\ ~InvalidRequestLine(att[c].lines[1])
     /\ BadHeaderLine(att[c].lines[Len(att[c].lines)])
     /\ pc[c] \notin {"headers"})
      => /\ pc[c] \in {"handle", "done"}
         /\ rr[c].err = "parse"
         /\ req[c].nil
         /\ pc[c] = "done" => (term[c] = "bad" /\ Responses400(c, iter[c]) = 1)

\* C24: a worker that has closed its connection and returned without
\* writing a response for its last parse attempt received no byte in that
\* attempt.
C24_SilentCloseOnlyWithoutBytes ==
  \A c \in Conns :
    (pc[c] = "done" /\ term[c] \in {"eof", "timeout", "bad"} /\ Responses(c, iter[c]) = 0)
      => ~att[c].bytes

\* what belongs to connection c: the connection and its worker's locals
OwnState(c) ==
  <<cstate[c], inbuf[c], partial[c], peerClosed[c], open[c], expired[c],
    pc[c], req[c], rr[c], att[c], iter[c], wire[c], term[c]>>

\* c's worker waits in ReadLine: nothing to read, no deadline passed yet
Blocked(c) ==
  /\ procAlive
  /\ pc[c] \in {"startline", "headers"}
  /\ ReadLine(c) = {}

\* the accept loop and d's worker can take their next step
Unhindered(d) ==
  /\ (srv = "listening" /\ cstate[d] = "pending") => ENABLED AcceptConn(d)
  /\ pc[d] = "arm" => ENABLED Arm(d)
  /\ (pc[d] = "startline" /\ ReadLine(d) # {}) => ENABLED ReadStartLine(d)
  /\ (pc[d] = "headers" /\ ReadLine(d) # {}) => ENABLED ReadHeaderLine(d)
  /\ (pc[d] = "handle" /\ rr[d].err # "nil")
       => ENABLED (HandleEOF(d) \/ HandleTimeout(d) \/ HandleBad(d))

\* C25: workers are independent: every step touches the connection and
\* the worker of at most one connection, each connection has the one worker
\* started for it when it was accepted, and while a worker waits for input
\* the accept loop and every other worker can take their next step.
C25_WorkersIndependent ==
  [][/\ Cardinality({c \in Conns : OwnState(c)' # OwnState(c)}) <= 1
     /\ \A c \in Conns :
          /\ (pc[c] # "none") <=> (cstate[c] = "accepted")
          /\ Blocked(c) => \A d \in Conns \ {c} : Unhindered(d)]_vars

\* one worker waits for input, a connection dialled after it is served
C25_Witness ==
  \E c, d \in Conns :
    /\ c < d
    /\ Blocked(c)
    /\ wire[d] # <<>>
    /\ pc[d] \in {"arm", "done"}

====
